---- MODULE Spec2Model ----
(***************************************************************************)
(* Model of app/src/main/cpp/ass_jni.c: the ASS_Image compositor           *)
(* (blend_ass_image), the bounding-box reducer (compute_bounding_box) and  *)
(* the JNI entry point nativeRenderFrame that crops the composited frame.  *)
(*                                                                         *)
(* A 32-bit word (ASS_Image.color, an ARGB_8888 pixel) is the tuple of its *)
(* four bytes, most significant first, so that 0xFF000000 is               *)
(* <<255, 0, 0, 0>>.  A pixel buffer of n pixels is a sequence of n words; *)
(* C index i is element i + 1.                                             *)
(***************************************************************************)
EXTENDS Integers, Sequences, FiniteSets

\* ------------------------------------------------------------------ bounds
MaxFrags == 2
MaxCanvas == 4

\* ------------------------------------------------------------- primitives
Min(a, b) == IF a < b THEN a ELSE b
Max(a, b) == IF a > b THEN a ELSE b

\* (word >> n) & 0xFF for n in {0, 8, 16, 24}
ShrByte(word, n) == word[4 - (n \div 8)]

\* A variant that packs the channels in the order A, B, G, R
PackABGR(a, r, g, b) == <<a, b, g, r>>

\* ((uint32_t)a << 24) | (r << 16) | (g << 8) | b, each operand one byte
PackARGB(a, r, g, b) == <<a, r, g, b>>

\* (uint8_t) v
U8(v) == v % 256

ZeroPixel == <<0, 0, 0, 0>>

\* calloc(canvas_w * canvas_h, sizeof(uint32_t))
ZeroCanvas(canvas_w, canvas_h) ==
    [i \in 1..(canvas_w * canvas_h) |-> ZeroPixel]

\* ------------------------------------------------------- ASS_Image inputs
Img(w, h, stride, bitmap, color, dst_x, dst_y) ==
    [w |-> w, h |-> h, stride |-> stride, bitmap |-> bitmap,
     color |-> color, dst_x |-> dst_x, dst_y |-> dst_y]

RedOpaque    == <<255, 0, 0, 0>>
BlueOpaque   == <<0, 0, 255, 0>>
WhiteOpaque  == <<255, 255, 255, 0>>
GreenHalf    == <<0, 255, 0, 128>>
BlackClear   == <<0, 0, 0, 255>>
NearWhite    == <<254, 254, 254, 0>>

Images ==
    { Img(1, 1, 1, <<128>>, RedOpaque, 0, 0),
      Img(1, 1, 1, <<128>>, BlueOpaque, 0, 0),
      Img(1, 1, 1, <<1>>, WhiteOpaque, 0, 0),
      Img(2, 2, 3, <<0, 0, 255, 0, 0, 255>>, RedOpaque, 1, 1),
      Img(2, 2, 2, <<255, 255, 255, 255>>, RedOpaque, 0, 0),
      Img(3, 1, 4, <<255, 128, 1, 0>>, GreenHalf, -1, 0),
      Img(2, 2, 2, <<255, 255, 255, 255>>, BlueOpaque, MaxCanvas - 1, MaxCanvas - 1),
      Img(1, 1, 1, <<255>>, BlackClear, 0, 0),
      Img(0, 1, 1, <<255>>, RedOpaque, 0, 0),
      Img(2, -1, 2, <<255, 255>>, RedOpaque, 1, 1),
      Img(2, 2, 2, <<255, 255, 255, 255>>, WhiteOpaque, -3, -3),
      Img(1, 2, 1, <<255, 254>>, NearWhite, 0, -1) }

RECURSIVE SeqsUpTo(_)
SeqsUpTo(n) ==
    IF n = 0 THEN { <<>> }
    ELSE LET S == SeqsUpTo(n - 1)
         IN  S \cup { Append(s, i) : s \in { t \in S : Len(t) = n - 1 }, i \in Images }

ImgLists == SeqsUpTo(MaxFrags)

\* <<frame_w, frame_h>> as nativeSetFrameSize leaves them
FrameSizes ==
    { <<0, 0>>, <<0, 2>>, <<2, 0>>, <<2, 2>>, <<4, 2>>, <<2, 4>>, <<4, 4>>,
      <<MaxCanvas, MaxCanvas>> }

NoRect == <<>>
StaleRect == <<7, 7, 9, 9>>
OutRects == {NoRect, StaleRect}

NullBitmap == [valid |-> FALSE, w |-> 0, h |-> 0, pixels |-> <<>>]

\* ---------------------------------------------------- blend_ass_image
\* dst_y < 0 || dst_y >= canvas_h
RowClipped(dst_y, canvas_h) == dst_y < 0 \/ dst_y >= canvas_h

\* A variant whose right-hand test is dst_x > canvas_w
ColClippedOffByOne(dst_x, canvas_w) == dst_x < 0 \/ dst_x > canvas_w

\* dst_x < 0 || dst_x >= canvas_w
ColClipped(dst_x, canvas_w) == dst_x < 0 \/ dst_x >= canvas_w

\* A variant that takes the rows to be tightly packed (y * img->w)
BitmapAlphaPacked(img, x, y) == img.bitmap[y * img.w + x + 1]

\* src_row[x] with src_row = img->bitmap + y * img->stride
BitmapAlpha(img, x, y) == img.bitmap[y * img.stride + x + 1]

\* A variant that does not invert the tint's alpha
FinalAlphaNotInverted(bitmap_alpha, a) == (bitmap_alpha * a) \div 255

\* (uint32_t)bitmap_alpha * (255 - a) / 255
FinalAlpha(bitmap_alpha, a) == (bitmap_alpha * (255 - a)) \div 255

\* 255 - final_alpha
InvAlpha(final_alpha) == 255 - final_alpha

\* A variant that divides by 256 (a shift) instead of 255
OutAlphaShift(final_alpha, dst_a, inv_alpha) ==
    final_alpha + (dst_a * inv_alpha) \div 256

\* final_alpha + dst_a * inv_alpha / 255, before the cast to uint8_t
OutAlpha(final_alpha, dst_a, inv_alpha) ==
    final_alpha + (dst_a * inv_alpha) \div 255

\* (c * final_alpha + dst_c * dst_a * inv_alpha / 255) / out_a, before the cast
OutChannel(c, final_alpha, dst_c, dst_a, inv_alpha, out_a) ==
    (c * final_alpha + (dst_c * dst_a * inv_alpha) \div 255) \div out_a

\* dst_row[dst_x] with dst_row = pixels + dst_y * canvas_w.  The clip tests
\* keep the index inside the buffer; outside it the load is undefined and the
\* model reads a zero word.
LoadPixel(pixels, dst_x, dst_y, canvas_w) ==
    LET i == dst_y * canvas_w + dst_x + 1
    IN  IF i \in DOMAIN pixels THEN pixels[i] ELSE ZeroPixel

StorePixel(pixels, dst_x, dst_y, canvas_w, word) ==
    LET i == dst_y * canvas_w + dst_x + 1
    IN  IF i \in DOMAIN pixels THEN [pixels EXCEPT ![i] = word] ELSE pixels

\* One iteration of the inner loop.  st.pixels is the buffer, st.touched the
\* (column, row) pairs loaded or stored so far, st.blends the arithmetic of
\* every store.
BlendPixel(st, img, x, y, canvas_w, canvas_h) ==
    LET r == ShrByte(img.color, 24)
        g == ShrByte(img.color, 16)
        b == ShrByte(img.color, 8)
        a == ShrByte(img.color, 0)
        dst_y == img.dst_y + y
        dst_x == img.dst_x + x
    IN
    IF RowClipped(dst_y, canvas_h) THEN st
    ELSE IF ColClipped(dst_x, canvas_w) THEN st
    ELSE IF BitmapAlpha(img, x, y) = 0 THEN st
    ELSE IF FinalAlpha(BitmapAlpha(img, x, y), a) = 0 THEN st
    ELSE
    LET final_alpha == FinalAlpha(BitmapAlpha(img, x, y), a)
        dst_pixel == LoadPixel(st.pixels, dst_x, dst_y, canvas_w)
        dst_a == ShrByte(dst_pixel, 24)
        dst_r == ShrByte(dst_pixel, 16)
        dst_g == ShrByte(dst_pixel, 8)
        dst_b == ShrByte(dst_pixel, 0)
        inv_alpha == InvAlpha(final_alpha)
        raw_a == OutAlpha(final_alpha, dst_a, inv_alpha)
        out_a == U8(raw_a)
        raw_r == IF out_a = 0 THEN 0
                 ELSE OutChannel(r, final_alpha, dst_r, dst_a, inv_alpha, out_a)
        raw_g == IF out_a = 0 THEN 0
                 ELSE OutChannel(g, final_alpha, dst_g, dst_a, inv_alpha, out_a)
        raw_b == IF out_a = 0 THEN 0
                 ELSE OutChannel(b, final_alpha, dst_b, dst_a, inv_alpha, out_a)
    IN  [pixels  |-> StorePixel(st.pixels, dst_x, dst_y, canvas_w,
                                PackARGB(out_a, U8(raw_r), U8(raw_g), U8(raw_b))),
         touched |-> st.touched \cup { <<dst_x, dst_y>> },
         blends  |-> st.blends \cup
                     { [src_alpha |-> final_alpha, dst_a |-> dst_a, out_a |-> raw_a,
                        chans |-> { <<r, dst_r, raw_r>>, <<g, dst_g, raw_g>>,
                                    <<b, dst_b, raw_b>> }] }]

\* for (y = 0; y < h; y++) for (x = 0; x < w; x++), from iteration (x, y) on
RECURSIVE BlendRows(_, _, _, _, _, _)
BlendRows(st, img, x, y, canvas_w, canvas_h) ==
    IF y >= img.h THEN st
    ELSE IF x >= img.w THEN BlendRows(st, img, 0, y + 1, canvas_w, canvas_h)
    ELSE BlendRows(BlendPixel(st, img, x, y, canvas_w, canvas_h),
                   img, x + 1, y, canvas_w, canvas_h)

\* for (img = img_list; img != NULL; img = img->next), from the k-th image on
RECURSIVE BlendFrom(_, _, _, _, _)
BlendFrom(st, img_list, k, canvas_w, canvas_h) ==
    IF k > Len(img_list) THEN st
    ELSE BlendFrom(BlendRows(st, img_list[k], 0, 0, canvas_w, canvas_h),
                   img_list, k + 1, canvas_w, canvas_h)

blend_ass_image(pixels, canvas_w, canvas_h, img_list) ==
    BlendFrom([pixels |-> pixels, touched |-> {}, blends |-> {}],
              img_list, 1, canvas_w, canvas_h)

\* ------------------------------------------------ compute_bounding_box
\* A variant that tests the width only
DegenerateWidthOnly(img) == img.w <= 0

\* img->w <= 0 || img->h <= 0
Degenerate(img) == img.w <= 0 \/ img.h <= 0

\* A variant that takes the far edges to be inclusive (dst + size - 1)
FoldImageInclusive(box, img) ==
    IF Degenerate(img) THEN box
    ELSE LET x1 == img.dst_x
             y1 == img.dst_y
             x2 == img.dst_x + img.w - 1
             y2 == img.dst_y + img.h - 1
         IN  << IF x1 < box[1] THEN x1 ELSE box[1],
                IF y1 < box[2] THEN y1 ELSE box[2],
                IF x2 > box[3] THEN x2 ELSE box[3],
                IF y2 > box[4] THEN y2 ELSE box[4] >>

\* One iteration of the fold over the list; box is <<left, top, right, bottom>>
FoldImage(box, img) ==
    IF Degenerate(img) THEN box
    ELSE LET x1 == img.dst_x
             y1 == img.dst_y
             x2 == img.dst_x + img.w
             y2 == img.dst_y + img.h
         IN  << IF x1 < box[1] THEN x1 ELSE box[1],
                IF y1 < box[2] THEN y1 ELSE box[2],
                IF x2 > box[3] THEN x2 ELSE box[3],
                IF y2 > box[4] THEN y2 ELSE box[4] >>

RECURSIVE FoldFrom(_, _, _)
FoldFrom(box, img_list, k) ==
    IF k > Len(img_list) THEN box
    ELSE FoldFrom(FoldImage(box, img_list[k]), img_list, k + 1)

\* A variant that clamps the near edges only
ClampBoxNoUpper(box, canvas_w, canvas_h) ==
    << IF box[1] < 0 THEN 0 ELSE box[1],
       IF box[2] < 0 THEN 0 ELSE box[2],
       box[3],
       box[4] >>

\* The stores through out_left .. out_bottom
ClampBox(box, canvas_w, canvas_h) ==
    << IF box[1] < 0 THEN 0 ELSE box[1],
       IF box[2] < 0 THEN 0 ELSE box[2],
       IF box[3] > canvas_w THEN canvas_w ELSE box[3],
       IF box[4] > canvas_h THEN canvas_h ELSE box[4] >>

compute_bounding_box(img_list, canvas_w, canvas_h) ==
    ClampBox(FoldFrom(<<canvas_w, canvas_h, 0, 0>>, img_list, 1),
             canvas_w, canvas_h)

\* ------------------------------------------------------ cropped copy
\* memcpy(dst + y * crop_w, full_pixels + (top + y) * frame_w + left, crop_w * 4)
\* for y in [0, crop_h)
CropPixels(pixels, canvas_w, box) ==
    LET crop_w == box[3] - box[1]
        crop_h == box[4] - box[2]
    IN  [i \in 1..(crop_w * crop_h) |->
            LET y == (i - 1) \div crop_w
                x == (i - 1) % crop_w
            IN  LoadPixel(pixels, box[1] + x, box[2] + y, canvas_w)]

\* --------------------------------------------------- nativeRenderFrame
\* A variant of the handler below that stores the box in outRect as soon as
\* it is known to be non-empty, before the buffers are obtained
nativeRenderFrameEarlyRect(ctx_ok, fw, fh, imgs, rect, alloc_ok, bmp_ok, lock_ok) ==
    LET null == [ret |-> NullBitmap, outRect |-> rect, bbox |-> NoRect,
                 full_pixels |-> <<>>, touched |-> {}, blends |-> {}]
        box == compute_bounding_box(imgs, fw, fh)
        crop_w == box[3] - box[1]
        crop_h == box[4] - box[2]
        st == blend_ass_image(ZeroCanvas(fw, fh), fw, fh, imgs)
        boxed == [null EXCEPT !.bbox = box,
                              !.outRect = IF rect # NoRect THEN box ELSE rect]
        blended == [boxed EXCEPT !.full_pixels = st.pixels,
                                 !.touched = st.touched, !.blends = st.blends]
    IN  IF ~ctx_ok THEN null
        ELSE IF fw <= 0 \/ fh <= 0 THEN null
        ELSE IF imgs = <<>> THEN null
        ELSE IF crop_w <= 0 \/ crop_h <= 0 THEN [null EXCEPT !.bbox = box]
        ELSE IF ~alloc_ok THEN boxed
        ELSE IF ~bmp_ok THEN blended
        ELSE IF ~lock_ok THEN blended
        ELSE [blended EXCEPT
                !.ret = [valid |-> TRUE, w |-> crop_w, h |-> crop_h,
                         pixels |-> CropPixels(st.pixels, fw, box)]]

\* The handler as a function of the context, the list ass_render_frame
\* returns, the caller's outRect and the outcomes of calloc, createBitmap and
\* AndroidBitmap_lockPixels.  bbox is the computed box, full_pixels the
\* full-frame buffer as blend_ass_image left it (the handler frees it before
\* it returns), touched and blends the accesses and arithmetic of that blend.
nativeRenderFrame(ctx_ok, fw, fh, imgs, rect, alloc_ok, bmp_ok, lock_ok) ==
    LET null == [ret |-> NullBitmap, outRect |-> rect, bbox |-> NoRect,
                 full_pixels |-> <<>>, touched |-> {}, blends |-> {}]
        box == compute_bounding_box(imgs, fw, fh)
        crop_w == box[3] - box[1]
        crop_h == box[4] - box[2]
        st == blend_ass_image(ZeroCanvas(fw, fh), fw, fh, imgs)
        blended == [null EXCEPT !.bbox = box, !.full_pixels = st.pixels,
                                !.touched = st.touched, !.blends = st.blends]
    IN  IF ~ctx_ok THEN null
        ELSE IF fw <= 0 \/ fh <= 0 THEN null
        ELSE IF imgs = <<>> THEN null
        ELSE IF crop_w <= 0 \/ crop_h <= 0 THEN [null EXCEPT !.bbox = box]
        ELSE IF ~alloc_ok THEN [null EXCEPT !.bbox = box]
        ELSE IF ~bmp_ok THEN blended
        ELSE IF ~lock_ok THEN blended
        ELSE [blended EXCEPT
                !.ret = [valid |-> TRUE, w |-> crop_w, h |-> crop_h,
                         pixels |-> CropPixels(st.pixels, fw, box)],
                !.outRect = IF rect # NoRect THEN box ELSE rect]

\* ---------------------------------------------------------------- state
VARIABLES
    track_ok,     \* ctx && ctx->renderer && ctx->track
    frame_w,      \* ctx->frame_w
    frame_h,      \* ctx->frame_h
    img_list,     \* the list ass_render_frame returns for this frame
    outRect,      \* the caller's int array, NoRect when it passes null
    pc,           \* "idle", "boxed", "blended" or "returned"
    bbox,         \* <<left, top, right, bottom>>, NoRect before it is computed
    full_pixels,  \* the full-frame buffer
    touched,      \* the (column, row) pairs blend_ass_image loaded or stored
    blends,       \* the arithmetic of every store of blend_ass_image
    ret           \* the Bitmap nativeRenderFrame returned, NullBitmap for null

vars == <<track_ok, frame_w, frame_h, img_list, outRect, pc, bbox,
          full_pixels, touched, blends, ret>>

Init ==
    /\ track_ok \in BOOLEAN
    /\ \E size \in FrameSizes : frame_w = size[1] /\ frame_h = size[2]
    /\ img_list \in (IF track_ok THEN ImgLists ELSE { <<>> })
    /\ outRect \in OutRects
    /\ pc = "idle"
    /\ bbox = NoRect
    /\ full_pixels = <<>>
    /\ touched = {}
    /\ blends = {}
    /\ ret = NullBitmap

\* compute_bounding_box applied to the rendered list
ComputeBoundingBox ==
    /\ pc = "idle"
    /\ track_ok
    /\ pc' = "boxed"
    /\ bbox' = compute_bounding_box(img_list, frame_w, frame_h)
    /\ UNCHANGED <<track_ok, frame_w, frame_h, img_list, outRect,
                   full_pixels, touched, blends, ret>>

\* blend_ass_image applied to the rendered list and a zeroed full-frame buffer
BlendAssImage ==
    /\ pc = "boxed"
    /\ pc' = "blended"
    /\ LET st == blend_ass_image(ZeroCanvas(frame_w, frame_h),
                                 frame_w, frame_h, img_list)
       IN  /\ full_pixels' = st.pixels
           /\ touched' = st.touched
           /\ blends' = st.blends
    /\ UNCHANGED <<track_ok, frame_w, frame_h, img_list, outRect, bbox, ret>>

NativeRenderFrame(alloc_ok, bmp_ok, lock_ok) ==
    /\ pc = "idle"
    /\ pc' = "returned"
    /\ LET out == nativeRenderFrame(track_ok, frame_w, frame_h, img_list,
                                    outRect, alloc_ok, bmp_ok, lock_ok)
       IN  /\ ret' = out.ret
           /\ outRect' = out.outRect
           /\ bbox' = out.bbox
           /\ full_pixels' = out.full_pixels
           /\ touched' = out.touched
           /\ blends' = out.blends
    /\ UNCHANGED <<track_ok, frame_w, frame_h, img_list>>

Next ==
    \/ ComputeBoundingBox
    \/ BlendAssImage
    \/ \E alloc_ok \in BOOLEAN, bmp_ok \in BOOLEAN, lock_ok \in BOOLEAN :
           NativeRenderFrame(alloc_ok, bmp_ok, lock_ok)

Spec == Init /\ [][Next]_vars

\* ------------------------------------------------------------ properties
CanvasPositive == frame_w > 0 /\ frame_h > 0

PixelAt(x, y) == full_pixels[y * frame_w + x + 1]

InsideBox(x, y) == x >= bbox[1] /\ x < bbox[3] /\ y >= bbox[2] /\ y < bbox[4]

\* Every coverage byte of the image, padding excluded, is 0
ZeroCoverage(img) ==
    \A y \in 0..(img.h - 1), x \in 0..(img.w - 1) :
        img.bitmap[y * img.stride + x + 1] = 0

Visible(img) == ~ZeroCoverage(img)

\* The image has no pixel: its width or its height is not positive
NoExtent(img) == img.w <= 0 \/ img.h <= 0

AllDegenerate(imgs) == \A k \in 1..Len(imgs) : NoExtent(imgs[k])

\* The image's effective source alpha at canvas position (0, 0), 0 if it does
\* not cover it
AlphaAtOrigin(img) ==
    IF NoExtent(img) \/ img.dst_x > 0 \/ img.dst_y > 0
       \/ img.dst_x + img.w <= 0 \/ img.dst_y + img.h <= 0
    THEN 0
    ELSE FinalAlpha(BitmapAlpha(img, 0 - img.dst_x, 0 - img.dst_y),
                    ShrByte(img.color, 0))

Tint(img) == <<ShrByte(img.color, 24), ShrByte(img.color, 16), ShrByte(img.color, 8)>>

Reverse(seq) == [k \in 1..Len(seq) |-> seq[Len(seq) + 1 - k]]

\* C1, as claimed: for every list and every positive canvas size the computed
\* rectangle satisfies 0 <= left <= right <= canvas_w and
\* 0 <= top <= bottom <= canvas_h.
C1_BoxOrdered ==
    (bbox # NoRect /\ CanvasPositive) =>
        /\ 0 <= bbox[1] /\ bbox[1] <= bbox[3] /\ bbox[3] <= frame_w
        /\ 0 <= bbox[2] /\ bbox[2] <= bbox[4] /\ bbox[4] <= frame_h

\* C1, amended: every coordinate of the computed rectangle lies within the
\* canvas, and left <= right and top <= bottom hold whenever the list has an
\* image of positive width and height.
C1_BoxWithinCanvas ==
    (bbox # NoRect /\ CanvasPositive) =>
        /\ bbox[1] \in 0..frame_w /\ bbox[3] \in 0..frame_w
        /\ bbox[2] \in 0..frame_h /\ bbox[4] \in 0..frame_h
        /\ ~AllDegenerate(img_list) => (bbox[1] <= bbox[3] /\ bbox[2] <= bbox[4])

C1_Witness ==
    /\ pc = "boxed" /\ CanvasPositive
    /\ \E k \in 1..Len(img_list) :
          ~NoExtent(img_list[k]) /\ img_list[k].dst_x < 0
    /\ \E k \in 1..Len(img_list) :
          ~NoExtent(img_list[k]) /\ img_list[k].dst_x + img_list[k].w > frame_w

\* C2: every pixel blend_ass_image loads or stores has its column in
\* [0, canvas_w) and its row in [0, canvas_h), and the buffer keeps its size.
C2_AccessInBounds ==
    /\ \A p \in touched : p[1] \in 0..(frame_w - 1) /\ p[2] \in 0..(frame_h - 1)
    /\ pc = "blended" => Len(full_pixels) = frame_w * frame_h

C2_Witness ==
    /\ pc = "blended" /\ touched # {}
    /\ \E k \in 1..Len(img_list) :
          /\ Visible(img_list[k])
          /\ img_list[k].dst_x + img_list[k].w > frame_w
          /\ img_list[k].dst_x < frame_w
          /\ img_list[k].dst_y < frame_h
    /\ \E k \in 1..Len(img_list) :
          /\ Visible(img_list[k])
          /\ img_list[k].dst_x < 0 /\ img_list[k].dst_x + img_list[k].w > 0

\* C3, as claimed: images whose coverage is all 0 change no pixel and are
\* excluded from the bounding box, which equals that of the list without them.
C3_ZeroCoverageExcluded ==
    (pc = "blended" /\ CanvasPositive) =>
        /\ full_pixels = blend_ass_image(ZeroCanvas(frame_w, frame_h), frame_w,
                             frame_h, SelectSeq(img_list, Visible)).pixels
        /\ bbox = compute_bounding_box(SelectSeq(img_list, Visible),
                                       frame_w, frame_h)

\* C3, amended: images whose coverage is all 0 change no pixel, but the
\* bounding box still contains the placed extent, clipped to the canvas, of
\* each such image of positive width and height.
C3_ZeroCoverageInvisible ==
    (pc = "blended" /\ CanvasPositive) =>
        /\ full_pixels = blend_ass_image(ZeroCanvas(frame_w, frame_h), frame_w,
                             frame_h, SelectSeq(img_list, Visible)).pixels
        /\ \A k \in 1..Len(img_list) :
              (ZeroCoverage(img_list[k]) /\ ~NoExtent(img_list[k])) =>
                 /\ bbox[1] <= Max(img_list[k].dst_x, 0)
                 /\ bbox[2] <= Max(img_list[k].dst_y, 0)
                 /\ bbox[3] >= Min(img_list[k].dst_x + img_list[k].w, frame_w)
                 /\ bbox[4] >= Min(img_list[k].dst_y + img_list[k].h, frame_h)

C3_Witness ==
    /\ pc = "blended" /\ frame_w = 4 /\ frame_h = 4
    /\ \E k \in 1..Len(img_list) :
          ZeroCoverage(img_list[k]) /\ ~NoExtent(img_list[k])
    /\ touched # {}
    /\ bbox # compute_bounding_box(SelectSeq(img_list, Visible), frame_w, frame_h)

Opaque2x2 == Img(2, 2, 2, <<255, 255, 255, 255>>, <<255, 0, 0, 0>>, 0, 0)

C5_EmptyBox ==
    AllDegenerate(img_list) =>
        /\ bbox # NoRect => bbox = <<frame_w, frame_h, 0, 0>>
        /\ pc = "returned" => ret = NullBitmap

C5_Witness ==
    /\ pc = "returned" /\ track_ok /\ CanvasPositive
    /\ Len(img_list) = 2 /\ AllDegenerate(img_list)
    /\ img_list[1] # img_list[2]
    /\ bbox = <<frame_w, frame_h, 0, 0>> /\ ret = NullBitmap

\* C6: after compositing onto a zeroed canvas every pixel outside the
\* bounding box is 0, and the cropped bitmap nativeRenderFrame returns, put
\* back at (left, top) on a zeroed canvas, is the composited canvas.
C6_RoundTripCrop ==
    /\ (pc = "blended" /\ CanvasPositive) =>
          \A x \in 0..(frame_w - 1), y \in 0..(frame_h - 1) :
              ~InsideBox(x, y) => PixelAt(x, y) = ZeroPixel
    /\ (pc = "returned" /\ ret # NullBitmap) =>
          /\ ret.w = bbox[3] - bbox[1] /\ ret.h = bbox[4] - bbox[2]
          /\ Len(ret.pixels) = ret.w * ret.h
          /\ \A x \in 0..(frame_w - 1), y \in 0..(frame_h - 1) :
                PixelAt(x, y) =
                    IF InsideBox(x, y)
                    THEN ret.pixels[(y - bbox[2]) * ret.w + (x - bbox[1]) + 1]
                    ELSE ZeroPixel

C6_Witness ==
    /\ pc = "returned" /\ ret # NullBitmap
    /\ bbox[1] > 0 /\ bbox[2] > 0
    /\ \E i \in DOMAIN ret.pixels : ret.pixels[i] # ZeroPixel
    /\ \E i \in DOMAIN ret.pixels : ret.pixels[i] = ZeroPixel

\* C7: a call of nativeRenderFrame that returns null leaves outRect as it
\* was, and a call that returns a bitmap stores (left, top, right, bottom)
\* in the outRect it was given.
C7_FailsCleanly ==
    [][pc' = "returned" =>
          /\ ret' = NullBitmap => outRect' = outRect
          /\ (ret' # NullBitmap /\ outRect # NoRect) => outRect' = bbox'
          /\ outRect = NoRect => outRect' = NoRect]_vars

C7_Witness ==
    /\ pc = "returned" /\ ret = NullBitmap /\ outRect = StaleRect
    /\ bbox # NoRect /\ bbox[3] > bbox[1] /\ bbox[4] > bbox[2]
    /\ full_pixels # <<>>

\* C8, as claimed: two images covering the same pixel with different tints
\* and effective alphas strictly between 0 and 255 give a different value at
\* that pixel in the two orders.
C8_AlwaysOrderSensitive ==
    (/\ pc = "blended" /\ CanvasPositive /\ Len(img_list) = 2
     /\ Tint(img_list[1]) # Tint(img_list[2])
     /\ AlphaAtOrigin(img_list[1]) \in 1..254
     /\ AlphaAtOrigin(img_list[2]) \in 1..254) =>
        PixelAt(0, 0) # blend_ass_image(ZeroCanvas(frame_w, frame_h), frame_w,
                            frame_h, Reverse(img_list)).pixels[1]

HalfRed == Img(1, 1, 1, <<128>>, <<255, 0, 0, 0>>, 0, 0)
HalfBlue == Img(1, 1, 1, <<128>>, <<0, 0, 255, 0>>, 0, 0)

\* C8, amended: the coverage-128 images of tints 0xFF000000 and 0x0000FF00
\* at the same pixel give 0xBF5500AA in the order red, blue and 0xBFAA0055 in
\* the order blue, red.
C8_OrderSensitivePair ==
    (pc = "blended" /\ CanvasPositive) =>
        /\ img_list = <<HalfRed, HalfBlue>> => PixelAt(0, 0) = <<191, 85, 0, 170>>
        /\ img_list = <<HalfBlue, HalfRed>> => PixelAt(0, 0) = <<191, 170, 0, 85>>

C8_Witness ==
    /\ pc = "blended" /\ CanvasPositive /\ img_list = <<HalfRed, HalfBlue>>
    /\ PixelAt(0, 0) # blend_ass_image(ZeroCanvas(frame_w, frame_h), frame_w,
                           frame_h, Reverse(img_list)).pixels[1]

\* C9: every output channel blend_ass_image computes lies between the source
\* channel and the destination channel, hence is at most 255 and does not
\* wrap when stored in 8 bits.
C9_ChannelIsAverage ==
    \A e \in blends : \A c \in e.chans :
        /\ Min(c[1], c[2]) <= c[3] /\ c[3] <= Max(c[1], c[2])
        /\ c[3] <= 255

\* C10: every store of blend_ass_image has
\* max(src_alpha, dst_a) <= out_a <= 255 and out_a > 0, before the cast.
C10_AlphaBounded ==
    \A e \in blends :
        /\ Max(e.src_alpha, e.dst_a) <= e.out_a
        /\ e.out_a <= 255
        /\ e.out_a > 0

C10_Witness ==
    /\ pc = "blended"
    /\ \E e \in blends :
          /\ e.dst_a \in 1..254 /\ e.src_alpha \in 1..254
          /\ e.out_a > e.dst_a /\ e.out_a > e.src_alpha

====
